---- MODULE Spec2Model ----
(***************************************************************************)
(* The evaluation pipeline of terraform-llm: evaluate_instance sequences   *)
(* the stage methods of TerraformEnvironment, score_plan grades the plan   *)
(* and InstanceResult.compute_total_score aggregates the stage scores.     *)
(* Floating point scores are modelled as exact fractions <<num, den>> in   *)
(* lowest terms.                                                           *)
(***************************************************************************)
EXTENDS Integers, Sequences, FiniteSets, TLC

\* ------------------------------------------------------------------ bounds
\* largest count an instance's expected_resources may require
MaxCount == 1
\* largest number of resource_changes entries in the output of show -json
MaxChanges == 2

\* largest count of one resource type in a plan handed to score_plan
MaxPlanned == 2
\* largest number of planned resource types that no expectation names
MaxUnexpected == 4
\* largest number of stages in an InstanceResult scored on its own
MaxStages == 2
\* largest number of instances in a dataset handed to a runner
MaxInstances == 2

\* resource types, in the order sorted() gives them
TypeOrder == <<"aws_lambda_function", "aws_s3_bucket">>
Types == {TypeOrder[i] : i \in DOMAIN TypeOrder}
\* further resource types a plan may hold, and all names as sorted() orders them
ExtraTypes == <<"aws_dynamodb_table", "aws_iam_role", "aws_sns_topic",
                "aws_sqs_queue", "aws_vpc">>
SortOrder == <<"aws_dynamodb_table", "aws_iam_role", "aws_lambda_function",
               "aws_s3_bucket", "aws_sns_topic", "aws_sqs_queue", "aws_vpc">>

\* the largest max_iterations and the most tool calls in one assistant message
MaxIterations == 3
MaxToolCalls == 2

\* --------------------------------------------------------------- fractions
RECURSIVE GCD(_, _)
GCD(a, b) == IF b = 0 THEN a ELSE GCD(b, a % b)

Abs(n) == IF n < 0 THEN -n ELSE n

Rat(n, d) == LET g == GCD(Abs(n), d) IN <<n \div g, d \div g>>

Zero == <<0, 1>>
Half == <<1, 2>>
One == <<1, 1>>

RAdd(a, b) == Rat(a[1] * b[2] + b[1] * a[2], a[2] * b[2])
RSub(a, b) == Rat(a[1] * b[2] - b[1] * a[2], a[2] * b[2])
RMul(a, b) == Rat(a[1] * b[1], a[2] * b[2])
RDiv(a, b) == Rat(a[1] * b[2], a[2] * b[1])
RLess(a, b) == a[1] * b[2] < b[1] * a[2]
RLeq(a, b) == a[1] * b[2] <= b[1] * a[2]
RMin(a, b) == IF RLess(b, a) THEN b ELSE a
RMax(a, b) == IF RLess(a, b) THEN b ELSE a

Min(a, b) == IF b < a THEN b ELSE a
Max(a, b) == IF a < b THEN b ELSE a

RECURSIVE RSum(_)
RSum(s) == IF s = <<>> THEN Zero ELSE RAdd(s[1], RSum(Tail(s)))

\* ------------------------------------------------- dicts (insertion order)
\* a dict is a sequence of <<key, value>> pairs with distinct keys
DictKeys(d) == {d[i][1] : i \in DOMAIN d}

DictGet(d, k, default) ==
    IF \E i \in DOMAIN d : d[i][1] = k
    THEN d[CHOOSE i \in DOMAIN d : d[i][1] = k][2]
    ELSE default

DictSet(d, k, v) ==
    IF \E i \in DOMAIN d : d[i][1] = k
    THEN [i \in DOMAIN d |-> IF d[i][1] = k THEN <<k, v>> ELSE d[i]]
    ELSE Append(d, <<k, v>>)

\* sorted(set of types)
Sorted(S) == SelectSeq(SortOrder, LAMBDA t : t \in S)

RECURSIVE Join(_, _)
Join(strs, sep) ==
    IF strs = <<>> THEN ""
    ELSE IF Len(strs) = 1 THEN strs[1]
    ELSE strs[1] \o sep \o Join(Tail(strs), sep)

\* ----------------------------------------------------------- results.py
PASSED == "passed"
FAILED == "failed"
SKIPPED == "skipped"
ERROR == "error"

StageResult(stage, status, score, message, details) ==
    [stage |-> stage, status |-> status, score |-> score,
     message |-> message, details |-> details]

STAGE_WEIGHTS(stage) ==
    CASE stage = "init" -> <<1, 10>>
      [] stage = "validate" -> <<2, 10>>
      [] stage = "plan" -> <<4, 10>>
      [] stage = "apply" -> <<2, 10>>
      [] stage = "validation_script" -> <<1, 10>>
      [] OTHER -> <<1, 10>>

UNSCORED_STAGES == {"setup_script", "cleanup_script", "destroy"}

Counted(s) == s.status # SKIPPED /\ s.stage \notin UNSCORED_STAGES

RECURSIVE weighted_sum(_)
weighted_sum(stgs) ==
    IF stgs = <<>> THEN Zero
    ELSE LET rest == weighted_sum(SubSeq(stgs, 1, Len(stgs) - 1))
             s == stgs[Len(stgs)]
         IN  IF Counted(s)
             THEN RAdd(rest, RMul(s.score, STAGE_WEIGHTS(s.stage)))
             ELSE rest

RECURSIVE total_weight(_)
total_weight(stgs) ==
    IF stgs = <<>> THEN Zero
    ELSE LET rest == total_weight(SubSeq(stgs, 1, Len(stgs) - 1))
             s == stgs[Len(stgs)]
         IN  IF Counted(s) THEN RAdd(rest, STAGE_WEIGHTS(s.stage)) ELSE rest

\* variant: Skipped stages are counted with their zero score
RECURSIVE total_weight_all(_)
total_weight_all(stgs) ==
    IF stgs = <<>> THEN Zero
    ELSE LET rest == total_weight_all(SubSeq(stgs, 1, Len(stgs) - 1))
             s == stgs[Len(stgs)]
         IN  IF s.stage \notin UNSCORED_STAGES
             THEN RAdd(rest, STAGE_WEIGHTS(s.stage)) ELSE rest

compute_total_score_counting_skipped(stgs) ==
    IF RLess(Zero, total_weight_all(stgs))
    THEN RDiv(weighted_sum(stgs), total_weight_all(stgs))
    ELSE Zero

\* variant: the denominator takes every stage at the default weight 0.1
compute_total_score_flat_weight(stgs) ==
    IF Len(SelectSeq(stgs, Counted)) > 0
    THEN RDiv(weighted_sum(stgs), Rat(Len(SelectSeq(stgs, Counted)), 10))
    ELSE Zero

\* variant: a result without scored stages gets the full score
compute_total_score_default_one(stgs) ==
    IF RLess(Zero, total_weight(stgs))
    THEN RDiv(weighted_sum(stgs), total_weight(stgs))
    ELSE One

compute_total_score(stgs) ==
    IF RLess(Zero, total_weight(stgs))
    THEN RDiv(weighted_sum(stgs), total_weight(stgs))
    ELSE Zero

\* ---------------------------------------------------- evaluator.score_plan
\* variant: the score is not clamped at 0.0
score_plan_unclamped(planned_resources, expected_resources) ==
    IF expected_resources = <<>>
    THEN IF planned_resources = <<>>
         THEN [score |-> One, message |-> "No expected resources to check"]
         ELSE [score |-> Half, message |-> "No expectations defined"]
    ELSE
      LET required == SelectSeq(expected_resources, LAMBDA kv : kv[2] # 0)
          planned(kv) == DictGet(planned_resources, kv[1], 0)
          type_scores ==
              [i \in DOMAIN required |->
                  Rat(Min(planned(required[i]), required[i][2]),
                      Max(planned(required[i]), required[i][2]))]
          mismatched == SelectSeq(required, LAMBDA kv : planned(kv) # kv[2])
          messages ==
              [i \in DOMAIN mismatched |->
                  mismatched[i][1] \o ": expected "
                      \o ToString(mismatched[i][2]) \o ", got "
                      \o ToString(planned(mismatched[i]))]
          unexpected == DictKeys(planned_resources) \ DictKeys(expected_resources)
          penalty == RMin(Rat(Cardinality(unexpected), 10), <<3, 10>>)
          average == IF type_scores # <<>>
                     THEN RDiv(RSum(type_scores), <<Len(type_scores), 1>>)
                     ELSE Zero
          score == RSub(average, penalty)
          msg == IF messages = <<>> /\ unexpected = {}
                 THEN "All resources match expected counts"
                 ELSE IF unexpected # {}
                      THEN Join(Append(messages,
                                "Unexpected types: " \o Join(Sorted(unexpected), ", ")),
                                "; ")
                      ELSE Join(messages, "; ")
      IN  [score |-> score, message |-> msg]

\* variant: a type expected 0 times is scored like any other type
score_plan_zero_counted(planned_resources, expected_resources) ==
    IF expected_resources = <<>>
    THEN IF planned_resources = <<>>
         THEN [score |-> One, message |-> "No expected resources to check"]
         ELSE [score |-> Half, message |-> "No expectations defined"]
    ELSE
      LET required == expected_resources
          planned(kv) == DictGet(planned_resources, kv[1], 0)
          type_scores ==
              [i \in DOMAIN required |->
                  IF required[i][2] = 0
                  THEN (IF planned(required[i]) = 0 THEN One ELSE Zero)
                  ELSE Rat(Min(planned(required[i]), required[i][2]),
                           Max(planned(required[i]), required[i][2]))]
          mismatched == SelectSeq(required, LAMBDA kv : planned(kv) # kv[2])
          messages ==
              [i \in DOMAIN mismatched |->
                  mismatched[i][1] \o ": expected "
                      \o ToString(mismatched[i][2]) \o ", got "
                      \o ToString(planned(mismatched[i]))]
          unexpected == DictKeys(planned_resources) \ DictKeys(expected_resources)
          penalty == RMin(Rat(Cardinality(unexpected), 10), <<3, 10>>)
          average == IF type_scores # <<>>
                     THEN RDiv(RSum(type_scores), <<Len(type_scores), 1>>)
                     ELSE Zero
          score == RMax(Zero, RSub(average, penalty))
          msg == IF messages = <<>> /\ unexpected = {}
                 THEN "All resources match expected counts"
                 ELSE IF unexpected # {}
                      THEN Join(Append(messages,
                                "Unexpected types: " \o Join(Sorted(unexpected), ", ")),
                                "; ")
                      ELSE Join(messages, "; ")
      IN  [score |-> score, message |-> msg]

\* variant: the penalty for unexpected types has no cap
score_plan_uncapped(planned_resources, expected_resources) ==
    IF expected_resources = <<>>
    THEN IF planned_resources = <<>>
         THEN [score |-> One, message |-> "No expected resources to check"]
         ELSE [score |-> Half, message |-> "No expectations defined"]
    ELSE
      LET required == SelectSeq(expected_resources, LAMBDA kv : kv[2] # 0)
          planned(kv) == DictGet(planned_resources, kv[1], 0)
          type_scores ==
              [i \in DOMAIN required |->
                  Rat(Min(planned(required[i]), required[i][2]),
                      Max(planned(required[i]), required[i][2]))]
          mismatched == SelectSeq(required, LAMBDA kv : planned(kv) # kv[2])
          messages ==
              [i \in DOMAIN mismatched |->
                  mismatched[i][1] \o ": expected "
                      \o ToString(mismatched[i][2]) \o ", got "
                      \o ToString(planned(mismatched[i]))]
          unexpected == DictKeys(planned_resources) \ DictKeys(expected_resources)
          penalty == Rat(Cardinality(unexpected), 10)
          average == IF type_scores # <<>>
                     THEN RDiv(RSum(type_scores), <<Len(type_scores), 1>>)
                     ELSE Zero
          score == RMax(Zero, RSub(average, penalty))
          msg == IF messages = <<>> /\ unexpected = {}
                 THEN "All resources match expected counts"
                 ELSE IF unexpected # {}
                      THEN Join(Append(messages,
                                "Unexpected types: " \o Join(Sorted(unexpected), ", ")),
                                "; ")
                      ELSE Join(messages, "; ")
      IN  [score |-> score, message |-> msg]

\* variant: a plan with resources scores 0.0 when nothing is expected
score_plan_empty_strict(planned_resources, expected_resources) ==
    IF expected_resources = <<>>
    THEN IF planned_resources = <<>>
         THEN [score |-> One, message |-> "No expected resources to check"]
         ELSE [score |-> Zero, message |-> "No expectations defined"]
    ELSE
      LET required == SelectSeq(expected_resources, LAMBDA kv : kv[2] # 0)
          planned(kv) == DictGet(planned_resources, kv[1], 0)
          type_scores ==
              [i \in DOMAIN required |->
                  Rat(Min(planned(required[i]), required[i][2]),
                      Max(planned(required[i]), required[i][2]))]
          mismatched == SelectSeq(required, LAMBDA kv : planned(kv) # kv[2])
          messages ==
              [i \in DOMAIN mismatched |->
                  mismatched[i][1] \o ": expected "
                      \o ToString(mismatched[i][2]) \o ", got "
                      \o ToString(planned(mismatched[i]))]
          unexpected == DictKeys(planned_resources) \ DictKeys(expected_resources)
          penalty == RMin(Rat(Cardinality(unexpected), 10), <<3, 10>>)
          average == IF type_scores # <<>>
                     THEN RDiv(RSum(type_scores), <<Len(type_scores), 1>>)
                     ELSE Zero
          score == RMax(Zero, RSub(average, penalty))
          msg == IF messages = <<>> /\ unexpected = {}
                 THEN "All resources match expected counts"
                 ELSE IF unexpected # {}
                      THEN Join(Append(messages,
                                "Unexpected types: " \o Join(Sorted(unexpected), ", ")),
                                "; ")
                      ELSE Join(messages, "; ")
      IN  [score |-> score, message |-> msg]

score_plan(planned_resources, expected_resources) ==
    IF expected_resources = <<>>
    THEN IF planned_resources = <<>>
         THEN [score |-> One, message |-> "No expected resources to check"]
         ELSE [score |-> Half, message |-> "No expectations defined"]
    ELSE
      LET required == SelectSeq(expected_resources, LAMBDA kv : kv[2] # 0)
          planned(kv) == DictGet(planned_resources, kv[1], 0)
          type_scores ==
              [i \in DOMAIN required |->
                  Rat(Min(planned(required[i]), required[i][2]),
                      Max(planned(required[i]), required[i][2]))]
          mismatched == SelectSeq(required, LAMBDA kv : planned(kv) # kv[2])
          messages ==
              [i \in DOMAIN mismatched |->
                  mismatched[i][1] \o ": expected "
                      \o ToString(mismatched[i][2]) \o ", got "
                      \o ToString(planned(mismatched[i]))]
          unexpected == DictKeys(planned_resources) \ DictKeys(expected_resources)
          penalty == RMin(Rat(Cardinality(unexpected), 10), <<3, 10>>)
          average == IF type_scores # <<>>
                     THEN RDiv(RSum(type_scores), <<Len(type_scores), 1>>)
                     ELSE Zero
          score == RMax(Zero, RSub(average, penalty))
          msg == IF messages = <<>> /\ unexpected = {}
                 THEN "All resources match expected counts"
                 ELSE IF unexpected # {}
                      THEN Join(Append(messages,
                                "Unexpected types: " \o Join(Sorted(unexpected), ", ")),
                                "; ")
                      ELSE Join(messages, "; ")
      IN  [score |-> score, message |-> msg]

\* ------------------------------------------ external processes (inputs)
\* What a spawned command prints on stdout, as far as the code inspects it:
\* text that is no JSON (the empty string included), a JSON array, or a
\* JSON object with the keys the code reads.
Doc(kind, valid, error_count, resource_changes) ==
    [kind |-> kind, valid |-> valid, error_count |-> error_count,
     resource_changes |-> resource_changes]

NoDoc == Doc("notjson", "absent", 0, <<>>)
ArrayDoc == Doc("array", "absent", 0, <<>>)

\* how a subprocess.run call ends
Exited(rc, doc) == [how |-> "exited", returncode |-> rc, stdout |-> doc]
TimedOut == [how |-> "timeout", returncode |-> 0, stdout |-> NoDoc]
NotFound == [how |-> "notfound", returncode |-> 0, stdout |-> NoDoc]

SimpleProcs == {Exited(0, NoDoc), Exited(1, NoDoc), TimedOut, NotFound}

ValidateProcs ==
    {Exited(0, Doc("object", "true", 0, <<>>)),
     Exited(1, Doc("object", "false", 1, <<>>)),
     Exited(0, Doc("object", "absent", 0, <<>>)),
     Exited(1, NoDoc),
     Exited(0, ArrayDoc),
     TimedOut, NotFound}

Changes == [mode : {"managed", "data"}, type : Types,
            actions : {<<"create">>, <<"no-op">>}]
ChangeSeqs == UNION {[1..n -> Changes] : n \in 0..MaxChanges}

ShowProcs ==
    {Exited(0, Doc("object", "absent", 0, rc)) : rc \in ChangeSeqs}
        \cup {Exited(0, NoDoc), Exited(0, ArrayDoc), Exited(1, NoDoc),
              TimedOut, NotFound}

\* a script file that may be absent, and the process that runs it
ScriptRuns == [exists : {TRUE}, proc : SimpleProcs]
                  \cup {[exists |-> FALSE, proc |-> NotFound]}

\* -------------------------------------------------------- environment.py
CommandResult(rc, out, err) == [returncode |-> rc, stdout |-> out, stderr |-> err]

\* variant: a timeout is reported with the return code of a clean exit
run_command_timeout_as_exit(proc) ==
    CASE proc.how = "exited" -> CommandResult(proc.returncode, proc.stdout, "")
      [] proc.how = "timeout" -> CommandResult(0, NoDoc, "Command timed out")
      [] proc.how = "notfound" -> CommandResult(-1, NoDoc, "Command not found")

run_command(proc) ==
    CASE proc.how = "exited" -> CommandResult(proc.returncode, proc.stdout, "")
      [] proc.how = "timeout" -> CommandResult(-1, NoDoc, "Command timed out")
      [] proc.how = "notfound" -> CommandResult(-1, NoDoc, "Command not found")

\* log entry for one subprocess.run: the command and the exit status of its
\* process (-1 when it was killed on timeout or could not be started)
Ran(cmd, proc) ==
    [cmd |-> cmd, exit |-> IF proc.how = "exited" THEN proc.returncode ELSE -1]

\* _run_docker_command passes work_dir= to execute_terraform_command, whose
\* signature (command, env_vars) has no such parameter: the call raises
\* TypeError before any container is run.
_run_docker_command(proc) ==
    [exc |-> "TypeError", cr |-> CommandResult(-1, NoDoc, "")]

\* LocalstackDockerEnvironment.execute_terraform_command called with the
\* parameters it has: the result dict of the docker run
execute_terraform_command(proc) ==
    CASE proc.how = "exited" ->
            [output |-> proc.stdout, stderr |-> "", returncode |-> proc.returncode,
             success |-> proc.returncode = 0, error |-> ""]
      [] proc.how = "timeout" ->
            [output |-> NoDoc, stderr |-> "Command timed out", returncode |-> -1,
             success |-> FALSE, error |-> "timeout"]
      [] proc.how = "notfound" ->
            [output |-> NoDoc, stderr |-> "No such file or directory", returncode |-> -1,
             success |-> FALSE, error |-> "No such file or directory"]

_exec(use_docker, proc) ==
    IF use_docker THEN _run_docker_command(proc)
    ELSE [exc |-> "none", cr |-> run_command(proc)]

NoResult == StageResult("", "", Zero, "", <<>>)
Return(result, cmds) == [exc |-> "none", result |-> result, cmds |-> cmds]
Raise(exc, cmds) == [exc |-> exc, result |-> NoResult, cmds |-> cmds]

\* variant: only a negative return code counts as failure
terraform_init_any_exit(use_docker, proc) ==
    LET r == _exec(use_docker, proc) IN
    IF r.exc # "none" THEN Raise(r.exc, <<>>)
    ELSE IF r.cr.returncode >= 0
    THEN Return(StageResult("init", PASSED, One, "terraform init succeeded", <<>>),
                <<Ran("init", proc)>>)
    ELSE Return(StageResult("init", FAILED, Zero, "terraform init failed", <<>>),
                <<Ran("init", proc)>>)

terraform_init(use_docker, proc) ==
    LET r == _exec(use_docker, proc) IN
    IF r.exc # "none" THEN Raise(r.exc, <<>>)
    ELSE IF r.cr.returncode = 0
    THEN Return(StageResult("init", PASSED, One, "terraform init succeeded", <<>>),
                <<Ran("init", proc)>>)
    ELSE Return(StageResult("init", FAILED, Zero, "terraform init failed", <<>>),
                <<Ran("init", proc)>>)

terraform_validate(use_docker, proc) ==
    LET r == _exec(use_docker, proc) IN
    IF r.exc # "none" THEN Raise(r.exc, <<>>)
    ELSE LET output == r.cr.stdout IN
    IF output.kind = "notjson"
    THEN Return(StageResult("validate", ERROR, Zero,
                            "Failed to parse validate output", <<>>),
                <<Ran("validate", proc)>>)
    ELSE IF output.kind # "object"
    THEN Raise("AttributeError", <<Ran("validate", proc)>>)
    ELSE IF output.valid = "true"
    THEN Return(StageResult("validate", PASSED, One, "Validation passed", <<>>),
                <<Ran("validate", proc)>>)
    ELSE Return(StageResult("validate", FAILED, Zero,
                    "Validation failed with " \o ToString(output.error_count)
                        \o " error(s)", <<>>),
                <<Ran("validate", proc)>>)

RECURSIVE resource_counts(_)
resource_counts(changes) ==
    IF changes = <<>> THEN <<>>
    ELSE LET counts == resource_counts(SubSeq(changes, 1, Len(changes) - 1))
             change == changes[Len(changes)]
         IN  IF change.mode # "managed" THEN counts
             ELSE IF \A i \in DOMAIN change.actions : change.actions[i] # "create"
             THEN counts
             ELSE DictSet(counts, change.type, DictGet(counts, change.type, 0) + 1)

RECURSIVE SumValues(_)
SumValues(d) == IF d = <<>> THEN 0 ELSE d[1][2] + SumValues(Tail(d))

terraform_plan(use_docker, plan_proc, show_proc) ==
    LET plan_result == _exec(use_docker, plan_proc) IN
    IF plan_result.exc # "none" THEN Raise(plan_result.exc, <<>>)
    ELSE IF plan_result.cr.returncode # 0
    THEN Return(StageResult("plan", FAILED, Zero, "terraform plan failed", <<>>),
                <<Ran("plan", plan_proc)>>)
    ELSE LET show_result == _exec(use_docker, show_proc) IN
    IF show_result.exc # "none" THEN Raise(show_result.exc, <<Ran("plan", plan_proc)>>)
    ELSE IF show_result.cr.returncode # 0
    THEN Return(StageResult("plan", ERROR, Zero, "terraform show -json failed", <<>>),
                <<Ran("plan", plan_proc), Ran("show", show_proc)>>)
    ELSE LET plan_json == show_result.cr.stdout IN
    IF plan_json.kind = "notjson"
    THEN Return(StageResult("plan", ERROR, Zero, "Failed to parse plan JSON", <<>>),
                <<Ran("plan", plan_proc), Ran("show", show_proc)>>)
    ELSE IF plan_json.kind # "object"
    THEN Raise("AttributeError", <<Ran("plan", plan_proc), Ran("show", show_proc)>>)
    ELSE LET counts == resource_counts(plan_json.resource_changes) IN
         Return(StageResult("plan", PASSED, One,
                    "Plan succeeded with " \o ToString(SumValues(counts))
                        \o " resource(s)",
                    <<<<"planned_resources", counts>>>>),
                <<Ran("plan", plan_proc), Ran("show", show_proc)>>)

terraform_apply(use_docker, proc) ==
    LET r == _exec(use_docker, proc) IN
    IF r.exc # "none" THEN Raise(r.exc, <<>>)
    ELSE IF r.cr.returncode = 0
    THEN Return(StageResult("apply", PASSED, One, "terraform apply succeeded", <<>>),
                <<Ran("apply", proc)>>)
    ELSE Return(StageResult("apply", FAILED, Zero, "terraform apply failed", <<>>),
                <<Ran("apply", proc)>>)

\* variant: a failing destroy raises (subprocess.run with check=True)
terraform_destroy_checked(use_docker, proc) ==
    LET r == _exec(use_docker, proc) IN
    IF r.exc # "none" THEN Raise(r.exc, <<>>)
    ELSE IF r.cr.returncode = 0
    THEN Return(StageResult("destroy", PASSED, One, "terraform destroy succeeded", <<>>),
                <<Ran("destroy", proc)>>)
    ELSE Raise("CalledProcessError", <<Ran("destroy", proc)>>)

terraform_destroy(use_docker, proc) ==
    LET r == _exec(use_docker, proc) IN
    IF r.exc # "none" THEN Raise(r.exc, <<>>)
    ELSE IF r.cr.returncode = 0
    THEN Return(StageResult("destroy", PASSED, One, "terraform destroy succeeded", <<>>),
                <<Ran("destroy", proc)>>)
    ELSE Return(StageResult("destroy", FAILED, Zero, "terraform destroy failed", <<>>),
                <<Ran("destroy", proc)>>)

\* the docker variants pass work_dir= to execute_validation_script,
\* execute_setup_script and execute_cleanup_script, which take no such
\* parameter either
run_validation_script(use_docker, run) ==
    IF use_docker THEN Raise("TypeError", <<>>)
    ELSE IF ~run.exists
    THEN Return(StageResult("validation_script", ERROR, Zero,
                            "Validation script not found", <<>>), <<>>)
    ELSE IF run_command(run.proc).returncode = 0
    THEN Return(StageResult("validation_script", PASSED, One,
                            "Validation script passed", <<>>),
                <<Ran("validation_script", run.proc)>>)
    ELSE Return(StageResult("validation_script", FAILED, Zero,
                            "Validation script failed", <<>>),
                <<Ran("validation_script", run.proc)>>)

\* _run_local_setup_script and _run_local_cleanup_script, which differ in
\* the stage name only: subprocess.run with TimeoutExpired caught and
\* FileNotFoundError not caught
run_local_script(stage, label, run) ==
    IF ~run.exists
    THEN Return(StageResult(stage, ERROR, Zero, label \o " script not found", <<>>),
                <<>>)
    ELSE CASE run.proc.how = "timeout" ->
                Return(StageResult(stage, ERROR, Zero, label \o " script timed out", <<>>),
                       <<Ran(stage, run.proc)>>)
           [] run.proc.how = "notfound" -> Raise("FileNotFoundError", <<Ran(stage, run.proc)>>)
           [] run.proc.how = "exited" ->
                IF run.proc.returncode = 0
                THEN Return(StageResult(stage, PASSED, One,
                                label \o " script succeeded", <<>>), <<Ran(stage, run.proc)>>)
                ELSE Return(StageResult(stage, FAILED, Zero,
                                label \o " script failed", <<>>), <<Ran(stage, run.proc)>>)

run_setup_script(use_docker, run) ==
    IF use_docker THEN Raise("TypeError", <<>>)
    ELSE run_local_script("setup_script", "Setup", run)

run_cleanup_script(use_docker, run) ==
    IF use_docker THEN Raise("TypeError", <<>>)
    ELSE run_local_script("cleanup_script", "Cleanup", run)

\* LocalstackDockerEnvironment.execute_cleanup_script called with the
\* parameters it has: the script is copied into work_dir outside the try
\* block, and every exception of the docker run is caught
execute_cleanup_script(run, copied) ==
    IF ~run.exists
    THEN Return([success |-> FALSE, error |-> "Cleanup script not found"], <<>>)
    ELSE IF ~copied THEN Raise("FileNotFoundError", <<>>)
    ELSE CASE run.proc.how = "exited" ->
                Return([success |-> run.proc.returncode = 0, error |-> ""],
                       <<Ran("cleanup_script", run.proc)>>)
           [] run.proc.how = "timeout" ->
                Return([success |-> FALSE, error |-> "Command timed out"],
                       <<Ran("cleanup_script", run.proc)>>)
           [] run.proc.how = "notfound" ->
                Return([success |-> FALSE, error |-> "No such file or directory"],
                       <<Ran("cleanup_script", run.proc)>>)

\* ------------------------------------------------- evaluator.py: state
VARIABLES
    instance,     \* the BenchmarkInstance fields evaluate_instance reads
    config,       \* the EvalConfig
    pc,           \* position of evaluate_instance and of its caller
    stages,       \* result.stages
    calls,        \* stage methods and helpers invoked so far, in order
    cmds,         \* external commands run so far, in order
    docker,       \* the LocalstackDockerEnvironment of this evaluation
    total_score,  \* result.total_score
    call,         \* the entry point under analysis and its arguments
    ret,          \* what direct calls of a single function have returned
    workers,      \* the local state of each thread of a concurrent entry point
    shared,       \* the objects those threads share
    log           \* what those threads have done to the outside world, in order

vars == <<instance, config, pc, stages, calls, cmds, docker, total_score, call, ret,
          workers, shared, log>>

\* no concurrent entry point is running
NoWorkers == workers = <<>> /\ shared = <<>> /\ log = <<>>

Dicts ==
    {d \in UNION {[1..n -> Types \X (0..MaxCount)] : n \in 0..Cardinality(Types)} :
        \A i, j \in DOMAIN d : i # j => d[i][1] # d[j][1]}

Init ==
    /\ instance \in [setup_script : BOOLEAN, validation_script : BOOLEAN,
                     expected_resources : Dicts]
    /\ config \in [run_apply : BOOLEAN, run_destroy : BOOLEAN,
                   run_validation : BOOLEAN, use_docker : BOOLEAN]
    /\ pc = "start"
    /\ stages = <<>>
    /\ calls = <<>>
    /\ cmds = <<>>
    /\ docker = "none"
    /\ total_score = Zero
    /\ call = [fn |-> "evaluate_instance"]
    /\ ret = <<>>
    /\ NoWorkers

\* variant: the last remaining stage is left out
_skip_remaining_short(result_stages, names) ==
    result_stages \o
        [i \in 1..(Len(names) - 1) |->
            StageResult(names[i], SKIPPED, Zero,
                        "Skipped due to previous stage failure", <<>>)]

\* variant: the Skipped results are inserted in front of the recorded stages
_skip_remaining_front(result_stages, names) ==
    [i \in DOMAIN names |->
        StageResult(names[i], SKIPPED, Zero,
                    "Skipped due to previous stage failure", <<>>)]
        \o result_stages

_skip_remaining(result_stages, names) ==
    result_stages \o
        [i \in DOMAIN names |->
            StageResult(names[i], SKIPPED, Zero,
                        "Skipped due to previous stage failure", <<>>)]

\* the finally block: docker_env.cleanup() when a docker_env was created
Finally == docker' = IF docker = "up" THEN "cleaned" ELSE docker

\* an exception leaves the with block and the try block
Propagate == pc' = "raised" /\ stages' = stages /\ Finally

\* a return statement inside the try block
ReturnResult == pc' = "returned" /\ Finally

\* variant: a partial score marks the plan stage Failed
scored_plan_failing_partial(plan_result, expected_resources) ==
    LET planned == DictGet(plan_result.details, "planned_resources", <<>>)
        sp == score_plan(planned, expected_resources)
    IN  [plan_result EXCEPT !.score = sp.score,
                            !.message = sp.message,
                            !.status = IF RLess(sp.score, One) THEN FAILED ELSE @]

\* the plan result as refined by the scorer
scored_plan(plan_result, expected_resources) ==
    LET planned == DictGet(plan_result.details, "planned_resources", <<>>)
        sp == score_plan(planned, expected_resources)
    IN  [plan_result EXCEPT !.score = sp.score,
                            !.message = sp.message,
                            !.status = IF RLess(sp.score, One) THEN PASSED ELSE @]

\* where evaluate_instance goes once the plan stage has passed
AfterPlan == IF config.run_apply THEN "apply" ELSE "cleanup"

\* variant: destroy is never run
AfterApply_no_destroy == "cleanup"

\* where it goes after a failed apply, a validation script or a passed
\* apply without validation
AfterApply == IF config.run_destroy THEN "destroy" ELSE "cleanup"

\* ------------------------------------------------ evaluate_instance steps
Begin ==
    /\ pc = "start"
    /\ IF config.use_docker
       THEN \E started \in BOOLEAN :
                IF started
                THEN /\ docker' = "up"
                     /\ pc' = IF instance.setup_script THEN "setup" ELSE "init"
                ELSE /\ docker' = "none"
                     /\ pc' = "raised"
       ELSE /\ docker' = docker
            /\ pc' = IF instance.setup_script THEN "setup" ELSE "init"
    /\ UNCHANGED <<instance, config, stages, calls, cmds, total_score, call, ret, workers, shared, log>>

SetupScript ==
    /\ pc = "setup"
    /\ \E run \in ScriptRuns :
         LET r == run_setup_script(config.use_docker, run) IN
         /\ calls' = Append(calls, "setup_script")
         /\ cmds' = cmds \o r.cmds
         /\ IF r.exc # "none" THEN Propagate
            ELSE IF r.result.status # PASSED
            THEN /\ stages' = _skip_remaining(Append(stages, r.result),
                        <<"init", "validate", "plan", "apply", "validation_script">>)
                 /\ ReturnResult
            ELSE /\ stages' = Append(stages, r.result)
                 /\ pc' = "init"
                 /\ docker' = docker
    /\ UNCHANGED <<instance, config, total_score, call, ret, workers, shared, log>>

TerraformInit ==
    /\ pc = "init"
    /\ \E proc \in SimpleProcs :
         LET r == terraform_init(config.use_docker, proc) IN
         /\ calls' = Append(calls, "init")
         /\ cmds' = cmds \o r.cmds
         /\ IF r.exc # "none" THEN Propagate
            ELSE IF r.result.status # PASSED
            THEN /\ stages' = _skip_remaining(Append(stages, r.result),
                        <<"validate", "plan", "apply", "validation_script">>)
                 /\ ReturnResult
            ELSE /\ stages' = Append(stages, r.result)
                 /\ pc' = "validate"
                 /\ docker' = docker
    /\ UNCHANGED <<instance, config, total_score, call, ret, workers, shared, log>>

TerraformValidate ==
    /\ pc = "validate"
    /\ \E proc \in ValidateProcs :
         LET r == terraform_validate(config.use_docker, proc) IN
         /\ calls' = Append(calls, "validate")
         /\ cmds' = cmds \o r.cmds
         /\ IF r.exc # "none" THEN Propagate
            ELSE IF r.result.status # PASSED
            THEN /\ stages' = _skip_remaining(Append(stages, r.result),
                        <<"plan", "apply", "validation_script">>)
                 /\ ReturnResult
            ELSE /\ stages' = Append(stages, r.result)
                 /\ pc' = "plan"
                 /\ docker' = docker
    /\ UNCHANGED <<instance, config, total_score, call, ret, workers, shared, log>>

TerraformPlan ==
    /\ pc = "plan"
    /\ \E plan_proc \in SimpleProcs :
       \E show_proc \in (IF run_command(plan_proc).returncode = 0
                         THEN ShowProcs ELSE {NotFound}) :
         LET r == terraform_plan(config.use_docker, plan_proc, show_proc) IN
         /\ calls' = Append(calls, "plan")
         /\ cmds' = cmds \o r.cmds
         /\ IF r.exc # "none" THEN Propagate
            ELSE IF r.result.status = PASSED
            THEN /\ stages' = Append(stages,
                        scored_plan(r.result, instance.expected_resources))
                 /\ pc' = AfterPlan
                 /\ docker' = docker
            ELSE /\ stages' = _skip_remaining(Append(stages, r.result),
                        <<"apply", "validation_script">>)
                 /\ ReturnResult
    /\ UNCHANGED <<instance, config, total_score, call, ret, workers, shared, log>>

TerraformApply ==
    /\ pc = "apply"
    /\ \E proc \in SimpleProcs :
         LET r == terraform_apply(config.use_docker, proc) IN
         /\ calls' = Append(calls, "apply")
         /\ cmds' = cmds \o r.cmds
         /\ IF r.exc # "none" THEN Propagate
            ELSE IF r.result.status # PASSED
            THEN /\ stages' = _skip_remaining(Append(stages, r.result),
                        <<"validation_script">>)
                 /\ pc' = AfterApply
                 /\ docker' = docker
            ELSE /\ stages' = Append(stages, r.result)
                 /\ pc' = IF config.run_validation /\ instance.validation_script
                          THEN "validation" ELSE AfterApply
                 /\ docker' = docker
    /\ UNCHANGED <<instance, config, total_score, call, ret, workers, shared, log>>

ValidationScript ==
    /\ pc = "validation"
    /\ \E run \in ScriptRuns :
         LET r == run_validation_script(config.use_docker, run) IN
         /\ calls' = Append(calls, "validation_script")
         /\ cmds' = cmds \o r.cmds
         /\ IF r.exc # "none" THEN Propagate
            ELSE /\ stages' = Append(stages, r.result)
                 /\ pc' = AfterApply
                 /\ docker' = docker
    /\ UNCHANGED <<instance, config, total_score, call, ret, workers, shared, log>>

\* the destroy after a failed apply and the destroy of stage 6: the result
\* is logged and dropped
TerraformDestroy ==
    /\ pc = "destroy"
    /\ \E proc \in SimpleProcs :
         LET r == terraform_destroy(config.use_docker, proc) IN
         /\ calls' = Append(calls, "destroy")
         /\ cmds' = cmds \o r.cmds
         /\ IF r.exc # "none" THEN Propagate
            ELSE /\ stages' = stages
                 /\ pc' = "cleanup"
                 /\ docker' = docker
    /\ UNCHANGED <<instance, config, total_score, call, ret, workers, shared, log>>

\* _run_cleanup_if_needed, then the end of the with block and the return
RunCleanupIfNeeded ==
    /\ pc = "cleanup"
    /\ IF instance.setup_script
       THEN \E run \in ScriptRuns :
              IF run.exists
              THEN LET r == run_cleanup_script(config.use_docker, run) IN
                   /\ calls' = calls \o <<"_run_cleanup_if_needed", "cleanup_script">>
                   /\ cmds' = cmds \o r.cmds
                   /\ IF r.exc # "none" THEN Propagate
                      ELSE stages' = stages /\ ReturnResult
              ELSE /\ calls' = Append(calls, "_run_cleanup_if_needed")
                   /\ cmds' = cmds
                   /\ stages' = stages
                   /\ ReturnResult
       ELSE /\ calls' = Append(calls, "_run_cleanup_if_needed")
            /\ cmds' = cmds
            /\ stages' = stages
            /\ ReturnResult
    /\ UNCHANGED <<instance, config, total_score, call, ret, workers, shared, log>>

\* the caller finalises the result it got back
ComputeTotalScore ==
    /\ pc = "returned"
    /\ total_score' = compute_total_score(stages)
    /\ pc' = "scored"
    /\ UNCHANGED <<instance, config, stages, calls, cmds, docker, call, ret, workers, shared, log>>

Next ==
    \/ Begin
    \/ SetupScript
    \/ TerraformInit
    \/ TerraformValidate
    \/ TerraformPlan
    \/ TerraformApply
    \/ ValidationScript
    \/ TerraformDestroy
    \/ RunCleanupIfNeeded
    \/ ComputeTotalScore

Spec == Init /\ [][Next]_vars

\* --------------------------------------- direct calls of single functions
\* evaluate_instance is not running: its state stays as constructed
Idle ==
    /\ instance = [setup_script |-> FALSE, validation_script |-> FALSE,
                   expected_resources |-> <<>>]
    /\ config = [run_apply |-> FALSE, run_destroy |-> FALSE,
                 run_validation |-> FALSE, use_docker |-> FALSE]
    /\ pc = "idle"
    /\ stages = <<>>
    /\ calls = <<>>
    /\ cmds = <<>>
    /\ docker = "none"
    /\ total_score = Zero

pipeline_vars == <<instance, config, pc, stages, calls, cmds, docker, total_score>>

\* the stage methods of TerraformEnvironment, each with the processes its
\* subprocess.run calls meet (terraform plan runs show only after plan exits 0)
StageCalls ==
    [fn : {"terraform_init", "terraform_apply", "terraform_destroy"},
     use_docker : BOOLEAN, procs : {<<p>> : p \in SimpleProcs}]
    \cup [fn : {"terraform_validate"},
          use_docker : BOOLEAN, procs : {<<p>> : p \in ValidateProcs}]
    \cup [fn : {"terraform_plan"}, use_docker : BOOLEAN,
          procs : {<<p>> : p \in {q \in SimpleProcs : run_command(q).returncode # 0}}
                  \cup {<<p, s>> : p \in {q \in SimpleProcs : run_command(q).returncode = 0},
                                   s \in ShowProcs}]

StageInit == Idle /\ call \in StageCalls /\ ret = <<>> /\ NoWorkers

stage_method(c) ==
    CASE c.fn = "terraform_init" -> terraform_init(c.use_docker, c.procs[1])
      [] c.fn = "terraform_validate" -> terraform_validate(c.use_docker, c.procs[1])
      [] c.fn = "terraform_plan" ->
            terraform_plan(c.use_docker, c.procs[1], c.procs[Len(c.procs)])
      [] c.fn = "terraform_apply" -> terraform_apply(c.use_docker, c.procs[1])
      [] c.fn = "terraform_destroy" -> terraform_destroy(c.use_docker, c.procs[1])

\* one call of a stage method on a TerraformEnvironment
CallStageMethod ==
    /\ ret = <<>>
    /\ ret' = <<stage_method(call)>>
    /\ UNCHANGED <<pipeline_vars, call, workers, shared, log>>

StageNext == CallStageMethod

StageSpec == StageInit /\ [][StageNext]_vars

\* ------------------------------------------------ score_plan called alone
DictRemove(d, k) == SelectSeq(d, LAMBDA kv : kv[1] # k)

\* dict equality, which ignores insertion order
DictEq(a, b) ==
    /\ DictKeys(a) = DictKeys(b)
    /\ \A k \in DictKeys(a) : DictGet(a, k, 0) = DictGet(b, k, 0)

\* plans: any count, or no entry, for each type an expectation may name,
\* followed by entries of types that no expectation names
PlannedDicts ==
    {SelectSeq([i \in DOMAIN TypeOrder |-> <<TypeOrder[i], f[TypeOrder[i]]>>],
               LAMBDA kv : kv[2] >= 0)
        \o [i \in 1..k |-> <<ExtraTypes[i], 1>>] :
            f \in [Types -> -1..MaxPlanned],
            k \in 0..Min(MaxUnexpected, Len(ExtraTypes))}

ScoreCalls ==
    [fn : {"score_plan"}, planned_resources : PlannedDicts,
     expected_resources : Dicts]

ScoreInit == Idle /\ call \in ScoreCalls /\ ret = <<>> /\ NoWorkers

CallScorePlan ==
    /\ ret = <<>>
    /\ ret' = <<score_plan(call.planned_resources, call.expected_resources)>>
    /\ UNCHANGED <<pipeline_vars, call, workers, shared, log>>

ScoreNext == CallScorePlan

ScoreSpec == ScoreInit /\ [][ScoreNext]_vars

\* ---------------------------------------- compute_total_score called alone
\* stage results of any name (scored, unscored, unknown), any status and
\* scores between 0.0 and 1.0
StageNames == {"init", "plan", "destroy", "smoke_test"}
AnyStageResults ==
    {StageResult(n, st, sc, "", <<>>) :
        n \in StageNames, st \in {PASSED, FAILED, SKIPPED, ERROR},
        sc \in {Zero, Half, One}}

TotalCalls ==
    [fn : {"compute_total_score"},
     stages : UNION {[1..n -> AnyStageResults] : n \in 0..MaxStages}]

TotalInit == Idle /\ call \in TotalCalls /\ ret = <<>> /\ NoWorkers

CallComputeTotalScore ==
    /\ ret = <<>>
    /\ total_score' = compute_total_score(call.stages)
    /\ ret' = <<total_score'>>
    /\ UNCHANGED <<instance, config, pc, stages, calls, cmds, docker, call,
                   workers, shared, log>>

TotalNext == CallComputeTotalScore

TotalSpec == TotalInit /\ [][TotalNext]_vars

\* ------------------------------------- the cleanup script run twice in a row
\* the script file is the same for both runs; each run has its own process
CleanupCalls ==
    {[fn |-> f, use_docker |-> d, copied |-> c,
      runs |-> <<[exists |-> e, proc |-> IF e THEN p1 ELSE NotFound],
                 [exists |-> e, proc |-> IF e THEN p2 ELSE NotFound]>>] :
        f \in {"run_cleanup_script", "execute_cleanup_script"},
        d \in BOOLEAN, c \in BOOLEAN, e \in BOOLEAN,
        p1 \in SimpleProcs, p2 \in SimpleProcs}

CleanupInit == Idle /\ call \in CleanupCalls /\ ret = <<>> /\ NoWorkers

\* the caller runs the next attempt unless the previous one raised
NextAttempt ==
    /\ Len(ret) < 2
    /\ \A i \in DOMAIN ret : ret[i].exc = "none"

CallRunCleanupScript ==
    /\ call.fn = "run_cleanup_script"
    /\ NextAttempt
    /\ ret' = Append(ret, run_cleanup_script(call.use_docker, call.runs[Len(ret) + 1]))
    /\ UNCHANGED <<pipeline_vars, call, workers, shared, log>>

CallExecuteCleanupScript ==
    /\ call.fn = "execute_cleanup_script"
    /\ NextAttempt
    /\ ret' = Append(ret, execute_cleanup_script(call.runs[Len(ret) + 1], call.copied))
    /\ UNCHANGED <<pipeline_vars, call, workers, shared, log>>

CleanupNext == CallRunCleanupScript \/ CallExecuteCleanupScript

CleanupSpec == CleanupInit /\ [][CleanupNext]_vars

\* ------------------------------------------ agent.py: run_benchmark
\* What the collaborators of run_instance do for one instance: generation
\* returns files or raises; evaluate_instance returns the stages it recorded
\* or raises (a backend that does not start, an exception out of a stage
\* method, a keyword of the call that its signature does not take).
EvalStages ==
    {<<>>,
     <<StageResult("init", FAILED, Zero, "terraform init failed", <<>>)>>,
     <<StageResult("init", PASSED, One, "terraform init succeeded", <<>>),
       StageResult("plan", PASSED, Half, "", <<>>)>>}

EvalOutcomes ==
    [exc : {"none"}, stages : EvalStages]
        \cup [exc : {"RuntimeError", "TypeError"}, stages : {<<>>}]

InstanceOutcomes == [gen : {"files", "raises"}, eval : EvalOutcomes]

InstanceResult(inst, stgs, total, error) ==
    [instance_id |-> inst, stages |-> stgs, total_score |-> total, error |-> error]

\* variant: the evaluation is run on an empty file map after a failed generation
run_instance_evaluating_anyway(inst, o) ==
    IF o.eval.exc # "none"
    THEN [exc |-> o.eval.exc, result |-> InstanceResult(inst, <<>>, Zero, ""),
          did |-> <<[op |-> "generate", inst |-> inst],
                    [op |-> "evaluate_instance", inst |-> inst]>>]
    ELSE [exc |-> "none",
          result |-> InstanceResult(inst, o.eval.stages,
                                    compute_total_score(o.eval.stages),
                                    IF o.gen = "raises" THEN "Generation failed" ELSE ""),
          did |-> <<[op |-> "generate", inst |-> inst],
                    [op |-> "evaluate_instance", inst |-> inst]>>]

\* run_instance for instance number inst: the exception or the result, and
\* the collaborators it called
run_instance(inst, o) ==
    IF o.gen = "raises"
    THEN [exc |-> "none",
          result |-> InstanceResult(inst, <<>>, Zero, "Generation failed"),
          did |-> <<[op |-> "generate", inst |-> inst]>>]
    ELSE IF o.eval.exc # "none"
    THEN [exc |-> o.eval.exc, result |-> InstanceResult(inst, <<>>, Zero, ""),
          did |-> <<[op |-> "generate", inst |-> inst],
                    [op |-> "evaluate_instance", inst |-> inst]>>]
    ELSE [exc |-> "none",
          result |-> InstanceResult(inst, o.eval.stages,
                                    compute_total_score(o.eval.stages), ""),
          did |-> <<[op |-> "generate", inst |-> inst],
                    [op |-> "evaluate_instance", inst |-> inst]>>]

Datasets == UNION {[1..n -> InstanceOutcomes] : n \in 0..MaxInstances}

RunBenchmarkInit ==
    /\ Idle
    /\ call \in [fn : {"run_benchmark"}, instances : Datasets]
    /\ ret = <<>>
    /\ workers = <<[pc |-> "loop", i |-> 1]>>
    /\ shared = [results |-> <<>>]
    /\ log = <<>>

\* one turn of the for loop: run_instance and report.results.append
RunBenchmarkInstance ==
    /\ workers[1].pc = "loop"
    /\ workers[1].i <= Len(call.instances)
    /\ LET r == run_instance(workers[1].i, call.instances[workers[1].i]) IN
       /\ log' = log \o r.did
       /\ IF r.exc # "none"
          THEN /\ workers' = <<[pc |-> "raised", i |-> workers[1].i]>>
               /\ UNCHANGED shared
          ELSE /\ workers' = <<[pc |-> "loop", i |-> workers[1].i + 1]>>
               /\ shared' = [results |-> Append(shared.results, r.result)]
    /\ UNCHANGED <<pipeline_vars, call, ret>>

\* the loop is over: return report
RunBenchmarkReturn ==
    /\ workers[1].pc = "loop"
    /\ workers[1].i > Len(call.instances)
    /\ workers' = <<[pc |-> "returned", i |-> workers[1].i]>>
    /\ ret' = <<shared>>
    /\ UNCHANGED <<pipeline_vars, call, shared, log>>

RunBenchmarkNext == RunBenchmarkInstance \/ RunBenchmarkReturn

RunBenchmarkSpec == RunBenchmarkInit /\ [][RunBenchmarkNext]_vars

\* ------------------------------------------ cli/benchmark.py: benchmark_command
\* the size of the thread pool in parallel mode
PoolSize == 2

\* What happens to one instance in process_instance: the instance directory
\* can be made or not (line 36, outside the try block), the code is
\* generated, fails to generate, or (with skip_generation) is found on disk
\* or not, the evaluation returns or raises, and the trajectory file can be
\* written or not.
ProcessOutcomes ==
    {[mkdir |-> "ok", code |-> "files", eval |-> "result", trace |-> "saved"],
     [mkdir |-> "ok", code |-> "raises", eval |-> "result", trace |-> "saved"],
     [mkdir |-> "ok", code |-> "nofiles", eval |-> "result", trace |-> "saved"],
     [mkdir |-> "ok", code |-> "files", eval |-> "raises", trace |-> "saved"],
     [mkdir |-> "ok", code |-> "files", eval |-> "result", trace |-> "raises"],
     [mkdir |-> "raises", code |-> "files", eval |-> "result", trace |-> "saved"]}

BenchmarkCalls ==
    {c \in [fn : {"benchmark_command"}, parallel : BOOLEAN, use_docker : BOOLEAN,
            skip_generation : BOOLEAN,
            instances : UNION {[1..n -> ProcessOutcomes] : n \in 1..MaxInstances}] :
        \A i \in DOMAIN c.instances :
            c.instances[i].code # (IF c.skip_generation THEN "raises" ELSE "nofiles")}

\* a task of the executor (in sequential mode: a call of process_instance)
Future(state, exc, returned, result, container) ==
    [state |-> state, exc |-> exc, returned |-> returned, result |-> result,
     container |-> container]

NoInstanceResult == InstanceResult(0, <<>>, Zero, "")
NoContainer == -1
\* the container started for the shared environment of the runner
RunnerContainer == 0

Event(op, inst, container, up) ==
    [op |-> op, inst |-> inst, container |-> container, up |-> up]

\* the result evaluate_instance returns for an instance that evaluates
EvaluatedStages ==
    <<StageResult("init", PASSED, One, "terraform init succeeded", <<>>),
      StageResult("plan", PASSED, Half, "", <<>>)>>

BenchmarkInit ==
    /\ Idle
    /\ call \in BenchmarkCalls
    /\ ret = <<>>
    /\ workers = [main |-> "start",
                  futures |-> [i \in DOMAIN call.instances |->
                                  Future("unsubmitted", "none", FALSE,
                                         NoInstanceResult, NoContainer)]]
    /\ shared = [results |-> <<>>, running |-> {}, written |-> FALSE]
    /\ log = <<>>

SharedBackend == call.use_docker /\ call.parallel

\* lines 269-307: the report, the shared environment, the submitted tasks
StartRunner ==
    /\ workers.main = "start"
    /\ workers' = [main |-> "collect",
                   futures |-> [i \in DOMAIN workers.futures |->
                                   [workers.futures[i] EXCEPT !.state = "pending"]]]
    /\ shared' = [shared EXCEPT !.running = IF SharedBackend THEN {RunnerContainer} ELSE {}]
    /\ log' = IF SharedBackend
              THEN Append(log, Event("start", 0, RunnerContainer, TRUE))
              ELSE log
    /\ UNCHANGED <<pipeline_vars, call, ret>>

Busy == {i \in DOMAIN workers.futures :
            workers.futures[i].state \in {"evaluating", "evaluated"}}
Finished == \A i \in DOMAIN workers.futures :
                workers.futures[i].state \in {"done", "collected"}

\* variant: an exception of the evaluation leaves process_instance
process_instance_raises_uncaught(o) ==
    IF o.mkdir = "raises" THEN "OSError"
    ELSE IF o.code = "files" /\ o.eval = "raises" THEN "RuntimeError"
    ELSE "none"

\* the exception that leaves process_instance: the try block starts after
\* the instance directory is made and catches every Exception
process_instance_raises(o) ==
    IF o.mkdir = "raises" THEN "OSError" ELSE "none"

\* a thread may take task i: a free thread of the pool, or the main thread
\* itself when the previous instances are through
MayStart(i) ==
    /\ workers.futures[i].state = "pending"
    /\ IF call.parallel
       THEN /\ workers.main \in {"collect", "unwinding"}
            /\ Cardinality(Busy) < PoolSize
       ELSE /\ workers.main = "collect"
            /\ \A j \in DOMAIN workers.futures :
                  j < i => workers.futures[j].state = "collected"

\* process_instance up to the point where evaluate_instance has built its
\* environment: LocalstackDockerEnvironment() reuses a running LocalStack
\* container or starts one
WorkerStart(i) ==
    /\ MayStart(i)
    /\ LET o == call.instances[i]
           f == workers.futures[i]
           gen == IF call.skip_generation THEN <<>>
                  ELSE <<Event("generate", i, NoContainer, TRUE)>>
           ev == <<Event("evaluate_instance", i, NoContainer, TRUE)>>
       IN
       IF o.mkdir = "raises"
       THEN /\ workers' = [workers EXCEPT !.futures[i] =
                              Future("done", process_instance_raises(o), FALSE,
                                     NoInstanceResult, NoContainer)]
            /\ UNCHANGED <<shared, log>>
       ELSE IF o.code = "nofiles"
       THEN /\ workers' = [workers EXCEPT !.futures[i] =
                              Future("done", "none", FALSE, NoInstanceResult, NoContainer)]
            /\ UNCHANGED <<shared, log>>
       ELSE IF o.code = "raises"
       THEN /\ workers' = [workers EXCEPT !.futures[i] =
                              Future("evaluated", "none", TRUE,
                                     run_instance(i, [gen |-> "raises",
                                                      eval |-> [exc |-> "none", stages |-> <<>>]]).result,
                                     NoContainer)]
            /\ log' = log \o gen
            /\ UNCHANGED shared
       ELSE IF o.eval = "raises"
       THEN /\ workers' = [workers EXCEPT !.futures[i] =
                              Future("done", process_instance_raises(o), FALSE,
                                     NoInstanceResult, NoContainer)]
            /\ log' = log \o gen \o ev
            /\ UNCHANGED shared
       ELSE IF ~call.use_docker
       THEN /\ workers' = [workers EXCEPT !.futures[i] =
                              Future("evaluating", "none", FALSE, NoInstanceResult, NoContainer)]
            /\ log' = log \o gen \o ev
            /\ UNCHANGED shared
       ELSE IF shared.running # {}
       THEN \E c \in shared.running :
               /\ workers' = [workers EXCEPT !.futures[i] =
                                 Future("evaluating", "none", FALSE, NoInstanceResult, c)]
               /\ log' = log \o gen \o ev \o <<Event("reuse", i, c, TRUE)>>
               /\ UNCHANGED shared
       ELSE /\ workers' = [workers EXCEPT !.futures[i] =
                              Future("evaluating", "none", FALSE, NoInstanceResult, i)]
            /\ shared' = [shared EXCEPT !.running = {i}]
            /\ log' = log \o gen \o ev \o <<Event("start", i, i, TRUE)>>
    /\ UNCHANGED <<pipeline_vars, call, ret>>

\* the stages of evaluate_instance, run against the container of its environment
WorkerStages(i) ==
    /\ workers.futures[i].state = "evaluating"
    /\ workers' = [workers EXCEPT !.futures[i].state = "evaluated",
                                 !.futures[i].returned = TRUE,
                                 !.futures[i].result =
                                     InstanceResult(i, EvaluatedStages,
                                                    compute_total_score(EvaluatedStages), "")]
    /\ log' = Append(log, Event("stages", i, workers.futures[i].container,
                                workers.futures[i].container \in shared.running
                                    \/ ~call.use_docker))
    /\ UNCHANGED <<pipeline_vars, call, ret, shared>>

\* the finally block of evaluate_instance (docker_env.cleanup() stops and
\* removes the container of the environment), then the rest of process_instance
WorkerFinish(i) ==
    /\ workers.futures[i].state = "evaluated"
    /\ LET f == workers.futures[i] IN
       /\ workers' = [workers EXCEPT !.futures[i] =
                         IF call.instances[i].trace = "raises"
                         THEN Future("done", "none", FALSE, NoInstanceResult, f.container)
                         ELSE [f EXCEPT !.state = "done"]]
       /\ IF f.container # NoContainer
          THEN /\ shared' = [shared EXCEPT !.running = @ \ {f.container}]
               /\ log' = Append(log, Event("stop", i, f.container,
                                           f.container \in shared.running))
          ELSE UNCHANGED <<shared, log>>
    /\ UNCHANGED <<pipeline_vars, call, ret>>

\* as_completed yields task i
MayCollect(i) ==
    /\ workers.main = "collect"
    /\ workers.futures[i].state = "done"

\* variant: the report keeps only the result collected last
Collect_keeping_last(i) ==
    /\ MayCollect(i)
    /\ workers' = [workers EXCEPT
                      !.main = IF workers.futures[i].exc # "none" THEN "unwinding" ELSE @,
                      !.futures[i].state = "collected"]
    /\ shared' = IF workers.futures[i].exc = "none" /\ workers.futures[i].returned
                 THEN [shared EXCEPT !.results = <<workers.futures[i].result>>]
                 ELSE shared
    /\ UNCHANGED <<pipeline_vars, call, ret, log>>

\* the main thread takes a finished task: future.result() re-raises what the
\* task raised, a result that is not None is appended to the report
Collect(i) ==
    /\ MayCollect(i)
    /\ workers' = [workers EXCEPT
                      !.main = IF workers.futures[i].exc # "none" THEN "unwinding" ELSE @,
                      !.futures[i].state = "collected"]
    /\ shared' = IF workers.futures[i].exc = "none" /\ workers.futures[i].returned
                 THEN [shared EXCEPT !.results = Append(@, workers.futures[i].result)]
                 ELSE shared
    /\ UNCHANGED <<pipeline_vars, call, ret, log>>

\* the finally block: shared_docker_env.cleanup()
CleanupShared ==
    /\ shared' = [shared EXCEPT !.running = IF SharedBackend THEN @ \ {RunnerContainer} ELSE @,
                                !.written = (workers.main = "collect")]
    /\ log' = IF SharedBackend
              THEN Append(log, Event("stop", 0, RunnerContainer,
                                     RunnerContainer \in shared.running))
              ELSE log

\* everything is collected: finally block, summary, benchmark_results.json
MayFinalize ==
    /\ workers.main = "collect"
    /\ \A i \in DOMAIN workers.futures : workers.futures[i].state = "collected"

Finalize ==
    /\ MayFinalize
    /\ CleanupShared
    /\ workers' = [workers EXCEPT !.main = "done"]
    /\ ret' = <<shared'.results>>
    /\ UNCHANGED <<pipeline_vars, call>>

\* an exception leaves the loop: the executor waits for its tasks, the
\* finally block runs, the exception leaves benchmark_command
MayUnwind ==
    /\ workers.main = "unwinding"
    /\ call.parallel =>
          \A i \in DOMAIN workers.futures : workers.futures[i].state \in {"done", "collected"}

Unwind ==
    /\ MayUnwind
    /\ CleanupShared
    /\ workers' = [workers EXCEPT !.main = "raised"]
    /\ UNCHANGED <<pipeline_vars, call, ret>>

BenchmarkNext ==
    \/ StartRunner
    \/ \E i \in DOMAIN workers.futures : WorkerStart(i)
    \/ \E i \in DOMAIN workers.futures : WorkerStages(i)
    \/ \E i \in DOMAIN workers.futures : WorkerFinish(i)
    \/ \E i \in DOMAIN workers.futures : Collect(i)
    \/ Finalize
    \/ Unwind

BenchmarkSpec == BenchmarkInit /\ [][BenchmarkNext]_vars

\* --------------------- one LocalstackDockerEnvironment shared by the workers

\* EvalConfig.init_timeout, plan_timeout, apply_timeout
StageTimeouts == {120, 300, 600}

\* the timeout the shared environment is constructed with
DefaultTimeout == 300

\* the working directory of the shared environment (output_base); the
\* directory of instance i is i
OutputBase == 0

\* each worker thread runs one terraform command of its own instance through
\* a TerraformEnvironment whose _docker_env is the shared environment
SharedEnvInit ==
    /\ Idle
    /\ call \in [fn : {"_run_docker_command"}, timeouts : [1..PoolSize -> StageTimeouts]]
    /\ ret = <<>>
    /\ workers = [i \in 1..PoolSize |->
                    [pc |-> "start", work_dir |-> i, timeout |-> call.timeouts[i],
                     original_timeout |-> DefaultTimeout]]
    /\ shared = [timeout |-> DefaultTimeout, work_dir |-> OutputBase]
    /\ log = <<>>

\* original_timeout = self._docker_env.timeout
SaveTimeout(i) ==
    /\ workers[i].pc = "start"
    /\ workers' = [workers EXCEPT ![i].pc = "saved",
                                 ![i].original_timeout = shared.timeout]
    /\ UNCHANGED <<pipeline_vars, call, ret, shared, log>>

\* self._docker_env.timeout = timeout
SetTimeout(i) ==
    /\ workers[i].pc = "saved"
    /\ workers' = [workers EXCEPT ![i].pc = "set"]
    /\ shared' = [shared EXCEPT !.timeout = workers[i].timeout]
    /\ UNCHANGED <<pipeline_vars, call, ret, log>>

\* execute_terraform_command: docker run -v self.work_dir:/workspace ...,
\* subprocess.run(cmd, timeout=self.timeout), self being the shared environment
DockerRun(i) ==
    [inst |-> i, timeout |-> shared.timeout, mounted |-> shared.work_dir]

ExecuteTerraformCommand(i) ==
    /\ workers[i].pc = "set"
    /\ workers' = [workers EXCEPT ![i].pc = "executed"]
    /\ log' = Append(log, DockerRun(i))
    /\ UNCHANGED <<pipeline_vars, call, ret, shared>>

\* finally: self._docker_env.timeout = original_timeout
RestoreTimeout(i) ==
    /\ workers[i].pc = "executed"
    /\ workers' = [workers EXCEPT ![i].pc = "done"]
    /\ shared' = [shared EXCEPT !.timeout = workers[i].original_timeout]
    /\ UNCHANGED <<pipeline_vars, call, ret, log>>

SharedEnvNext ==
    \E i \in 1..PoolSize :
        \/ SaveTimeout(i)
        \/ SetTimeout(i)
        \/ ExecuteTerraformCommand(i)
        \/ RestoreTimeout(i)

SharedEnvSpec == SharedEnvInit /\ [][SharedEnvNext]_vars

\* ------------------------- docker_environment.py: waiting for LocalStack

max_retries == 60

\* what one `docker exec ... curl .../_localstack/health` can give: an exit
\* code with the text of the answer, or no answer within 5 seconds
HealthChecks ==
    [how : {"exit"}, returncode : {0, 1}, stdout : {"running", "available", "starting"}]
        \cup {[how |-> "timeout", returncode |-> 0, stdout |-> "starting"]}

NoHealthCheck == [how |-> "none", returncode |-> 0, stdout |-> "starting"]

\* variant: any answer with exit code 0 counts as ready
is_ready_any_answer(r) == r.how = "exit" /\ r.returncode = 0

\* the test of _wait_for_localstack on the result of one health check
is_ready(r) ==
    /\ r.how = "exit"
    /\ r.returncode = 0
    /\ r.stdout \in {"running", "available"}

\* LocalstackDockerEnvironment(...) is called; the inputs are what the
\* docker commands of the constructor meet
WaitInit ==
    /\ Idle
    /\ call \in [fn : {"LocalstackDockerEnvironment"},
                  network : {"created", "fails"},
                  existing : BOOLEAN,
                  run : {"started", "fails"}]
    /\ ret = <<>>
    /\ workers = [pc |-> "init", i |-> 0, last |-> NoHealthCheck, exc |-> "none"]
    /\ shared = <<>>
    /\ log = <<>>

\* __init__ up to the call of _wait_for_localstack: _setup_network, then
\* _start_localstack reuses a running container or starts one
StartLocalstack ==
    /\ workers.pc = "init"
    /\ workers' = IF call.network = "fails"
                  THEN [workers EXCEPT !.pc = "raised", !.exc = "RuntimeError"]
                  ELSE IF ~call.existing /\ call.run = "fails"
                  THEN [workers EXCEPT !.pc = "raised", !.exc = "CalledProcessError"]
                  ELSE [workers EXCEPT !.pc = "waiting"]
    /\ UNCHANGED <<pipeline_vars, call, ret, shared, log>>

\* one turn of the loop of _wait_for_localstack: a health check, return when
\* it is ready, else sleep; after the last turn RuntimeError
Poll ==
    /\ workers.pc = "waiting"
    /\ workers.i < max_retries
    /\ \E r \in HealthChecks :
          /\ workers' = IF is_ready(r)
                        THEN [workers EXCEPT !.pc = "ready", !.last = r]
                        ELSE IF workers.i + 1 = max_retries
                        THEN [workers EXCEPT !.pc = "raised", !.exc = "RuntimeError",
                                             !.i = @ + 1, !.last = r]
                        ELSE [workers EXCEPT !.i = @ + 1, !.last = r]
          /\ log' = Append(log, [op |-> "poll", ready |-> is_ready(r)])
    /\ UNCHANGED <<pipeline_vars, call, ret, shared>>

\* the constructed environment runs a command of a stage
RunStage ==
    /\ workers.pc = "ready"
    /\ workers' = [workers EXCEPT !.pc = "stage"]
    /\ log' = Append(log, [op |-> "stage", ready |-> TRUE])
    /\ UNCHANGED <<pipeline_vars, call, ret, shared>>

WaitNext == StartLocalstack \/ Poll \/ RunStage

WaitSpec == WaitInit /\ [][WaitNext]_vars

\* ------------------------------- tool_agent.py: generate_hcl_with_tools

\* a tool call of the assistant: the tool name and what its arguments string
\* holds ("bad_json" does not parse, "not_object" parses to something that
\* is not a JSON object, "files" is an object with a non-empty `files`,
\* "empty" an object with no or an empty `files`)
ToolCallKinds ==
    [name : {"search_terraform_docs"}, args : {"query", "not_object", "bad_json"}]
        \cup [name : {"submit_terraform"}, args : {"files", "empty", "not_object", "bad_json"}]
        \cup [name : {"unknown"}, args : {"query"}]

ToolCallLists ==
    UNION {[1..n -> ToolCallKinds] : n \in 1..MaxToolCalls}

\* what one litellm.completion call gives: an exception of the API, a message
\* without tool calls (content with HCL blocks, other content, no content),
\* or a message with tool calls
Completions ==
    [how : {"raises"}, content : {"none"}, tool_calls : {<<>>}]
        \cup [how : {"message"}, content : {"hcl", "prose", "none"}, tool_calls : {<<>>}]
        \cup [how : {"message"}, content : {"none"}, tool_calls : ToolCallLists]

\* the loop over assistant_message.tool_calls: the exception that leaves it
\* and the value of submitted_terraform after it
RECURSIVE process_tool_calls(_, _)
process_tool_calls(tool_calls, submitted_terraform) ==
    IF tool_calls = <<>> THEN [exc |-> "none", submitted_terraform |-> submitted_terraform]
    ELSE LET tool_call == Head(tool_calls) IN
         IF tool_call.args = "bad_json"
         THEN process_tool_calls(Tail(tool_calls), submitted_terraform)
         ELSE IF tool_call.name \in {"search_terraform_docs", "submit_terraform"}
                 /\ tool_call.args = "not_object"
         THEN [exc |-> "AttributeError", submitted_terraform |-> submitted_terraform]
         ELSE IF tool_call.name = "submit_terraform" /\ tool_call.args = "files"
         THEN process_tool_calls(Tail(tool_calls), "submitted")
         ELSE process_tool_calls(Tail(tool_calls), submitted_terraform)

ToolAgentInit ==
    /\ Idle
    /\ call \in [fn : {"generate_hcl_with_tools"}, max_iterations : 1..MaxIterations]
    /\ ret = <<>>
    /\ workers = [pc |-> "loop", iteration |-> 0, exc |-> "none"]
    /\ shared = [completions |-> 0]
    /\ log = <<>>

\* one turn of the agentic loop: the completion call and what follows it
Iteration ==
    /\ workers.pc = "loop"
    /\ workers.iteration < call.max_iterations
    /\ \E response \in Completions :
          /\ log' = <<response>>
          /\ shared' = [completions |-> shared.completions + 1]
          /\ IF response.how = "raises"
             THEN /\ workers' = [workers EXCEPT !.pc = "raised", !.exc = "APIError"]
                  /\ UNCHANGED ret
             ELSE IF response.tool_calls = <<>>
             THEN IF response.content = "hcl"
                  THEN /\ workers' = [workers EXCEPT !.pc = "returned"]
                       /\ ret' = <<"extracted">>
                  ELSE IF workers.iteration < call.max_iterations - 1
                  THEN /\ workers' = [workers EXCEPT !.iteration = @ + 1]
                       /\ UNCHANGED ret
                  ELSE /\ workers' = [workers EXCEPT !.pc = "raised", !.exc = "RuntimeError"]
                       /\ UNCHANGED ret
             ELSE LET r == process_tool_calls(response.tool_calls, "None") IN
                  IF r.exc # "none"
                  THEN /\ workers' = [workers EXCEPT !.pc = "raised", !.exc = r.exc]
                       /\ UNCHANGED ret
                  ELSE IF r.submitted_terraform # "None"
                  THEN /\ workers' = [workers EXCEPT !.pc = "returned"]
                       /\ ret' = <<r.submitted_terraform>>
                  ELSE /\ workers' = [workers EXCEPT !.iteration = @ + 1]
                       /\ UNCHANGED ret
    /\ UNCHANGED <<pipeline_vars, call>>

\* the loop ran max_iterations times without a submission
Exhausted ==
    /\ workers.pc = "loop"
    /\ workers.iteration = call.max_iterations
    /\ workers' = [workers EXCEPT !.pc = "raised", !.exc = "RuntimeError"]
    /\ UNCHANGED <<pipeline_vars, call, ret, shared, log>>

ToolAgentNext == Iteration \/ Exhausted

ToolAgentSpec == ToolAgentInit /\ [][ToolAgentNext]_vars

\* ------------------------------------------------------------ properties
\* the order in which evaluate_instance records stages
StageOrder == <<"setup_script", "init", "validate", "plan", "apply", "validation_script">>
\* the order in which it runs commands (show belongs to the plan stage)
CommandOrder == <<"setup_script", "init", "validate", "plan", "show", "apply",
                  "validation_script", "destroy", "cleanup_script">>
\* the stage vocabulary of StageResult.stage
StageVocabulary == {"setup_script", "init", "validate", "plan", "apply",
                    "validation_script", "destroy", "cleanup_script"}

IndexIn(seq, x) == CHOOSE i \in DOMAIN seq : seq[i] = x
Range(seq) == {seq[i] : i \in DOMAIN seq}
CmdNames == {cmds[i].cmd : i \in DOMAIN cmds}
Recorded(name) == \E i \in DOMAIN stages : stages[i].stage = name
RecordedAs(name, status) ==
    \E i \in DOMAIN stages : stages[i].stage = name /\ stages[i].status = status
CmdFailed(name) ==
    \E i \in DOMAIN cmds :
        cmds[i].cmd = name /\ cmds[i].exit # 0

\* evaluate_instance has returned its InstanceResult
Returned == pc \in {"returned", "scored"}

\* C1: in a returned result, every stage with status Failed or Error is
\* followed by a Skipped entry with score 0.0 for each stage after it in the
\* stage order.
C1_SkipPropagation ==
    Returned =>
        \A i \in DOMAIN stages :
            stages[i].status \in {FAILED, ERROR} =>
                \A k \in DOMAIN StageOrder :
                    k > IndexIn(StageOrder, stages[i].stage) =>
                        \E j \in DOMAIN stages :
                            /\ j > i
                            /\ stages[j].stage = StageOrder[k]
                            /\ stages[j].status = SKIPPED
                            /\ stages[j].score = Zero

C1_Witness ==
    /\ Returned
    /\ RecordedAs("validate", ERROR)
    /\ RecordedAs("plan", SKIPPED)
    /\ RecordedAs("validation_script", SKIPPED)

\* C2: without a setup script, an init that exits nonzero gives exactly
\* init Failed followed by validate, plan, apply, validation_script Skipped,
\* and a total score of 0.0.
C2_InitFailure ==
    (/\ pc = "scored"
     /\ ~instance.setup_script
     /\ \E i \in DOMAIN cmds :
            cmds[i].cmd = "init" /\ cmds[i].exit > 0)
        => /\ [i \in DOMAIN stages |-> <<stages[i].stage, stages[i].status>>]
                = << <<"init", FAILED>>, <<"validate", SKIPPED>>,
                     <<"plan", SKIPPED>>, <<"apply", SKIPPED>>,
                     <<"validation_script", SKIPPED>> >>
           /\ total_score = Zero

C2_Witness ==
    /\ pc = "scored"
    /\ ~instance.setup_script
    /\ cmds = <<Ran("init", Exited(1, NoDoc))>>
    /\ Len(stages) = 5

\* C3: with run_apply off, apply, the validation script and destroy are
\* never run, and the total score is the average of the init, validate and
\* plan stages that ran, weighted 1 : 2 : 4.
C3_Ran(name) == RecordedAs(name, PASSED) \/ RecordedAs(name, FAILED)
                    \/ RecordedAs(name, ERROR)
C3_Score(name) ==
    IF C3_Ran(name) THEN stages[IndexIn([i \in DOMAIN stages |-> stages[i].stage], name)].score
    ELSE Zero
C3_Weight(name, w) == IF C3_Ran(name) THEN w ELSE 0

C3_PlanOnly ==
    ~config.run_apply =>
        /\ {"apply", "validation_script", "destroy"} \cap (Range(calls) \cup CmdNames) = {}
        /\ pc = "scored" =>
             LET num == RAdd(RAdd(RMul(<<C3_Weight("init", 1), 1>>, C3_Score("init")),
                                  RMul(<<C3_Weight("validate", 2), 1>>, C3_Score("validate"))),
                             RMul(<<C3_Weight("plan", 4), 1>>, C3_Score("plan")))
                 den == C3_Weight("init", 1) + C3_Weight("validate", 2)
                            + C3_Weight("plan", 4)
             IN  IF den = 0 THEN total_score = Zero
                 ELSE total_score = RDiv(num, <<den, 1>>)

C3_Witness ==
    /\ pc = "scored"
    /\ ~config.run_apply
    /\ config.run_destroy
    /\ config.run_validation
    /\ instance.validation_script
    /\ RecordedAs("plan", PASSED)
    /\ C3_Score("plan") = Half
    /\ total_score = <<5, 7>>

\* C4: a plan stage whose dry run succeeded is Passed whatever score_plan
\* returns, carries exactly score_plan's score and message, and does not
\* cause later stages to be skipped.
C4_PlannedOf(s) == DictGet(s.details, "planned_resources", <<>>)

C4_PlanPassedWhateverScore ==
    \A i \in DOMAIN stages :
        (stages[i].stage = "plan" /\ stages[i].details # <<>>) =>
            /\ stages[i].status = PASSED
            /\ stages[i].score =
                   score_plan(C4_PlannedOf(stages[i]), instance.expected_resources).score
            /\ stages[i].message =
                   score_plan(C4_PlannedOf(stages[i]), instance.expected_resources).message
            /\ ~RecordedAs("apply", SKIPPED)
            /\ (RecordedAs("validation_script", SKIPPED) =>
                    (RecordedAs("apply", FAILED) \/ RecordedAs("apply", ERROR)))
            /\ (Returned /\ config.run_apply => \E c \in DOMAIN calls : calls[c] = "apply")

C4_Witness ==
    /\ Returned
    /\ instance.expected_resources = << <<"aws_lambda_function", 1>> >>
    /\ \E i \in DOMAIN stages :
           /\ stages[i].stage = "plan"
           /\ stages[i].status = PASSED
           /\ stages[i].details = << <<"planned_resources", <<>> >> >>
           /\ stages[i].score = Zero
           /\ stages[i].message = "aws_lambda_function: expected 1, got 0"
    /\ RecordedAs("apply", PASSED)

\* C5: whenever the setup_script stage was run, the cleanup script has been
\* attempted by the time evaluate_instance returns.
C5_CleanupAlwaysAttempted ==
    (Returned /\ Recorded("setup_script")) =>
        \E c \in DOMAIN calls : calls[c] = "_run_cleanup_if_needed"

\* C6: after an apply that did not pass, validation_script is recorded as
\* Skipped and never run, and destroy is run exactly when run_destroy is set.
C6_ApplyFailure ==
    (RecordedAs("apply", FAILED) \/ RecordedAs("apply", ERROR)) =>
        /\ RecordedAs("validation_script", SKIPPED)
        /\ "validation_script" \notin (Range(calls) \cup CmdNames)
        /\ Returned => (("destroy" \in Range(calls) /\ "destroy" \in CmdNames)
                            <=> config.run_destroy)

C6_Witness ==
    /\ Returned
    /\ RecordedAs("apply", FAILED)
    /\ config.run_destroy
    /\ config.run_validation
    /\ instance.validation_script
    /\ "destroy" \in CmdNames

\* C7: a destroy that fails leaves the recorded stages and the total score
\* they give untouched and does not make evaluate_instance raise.
C7_DestroyFailureNotPropagated ==
    [][(pc = "destroy" /\ cmds' # cmds
            /\ LET d == cmds'[Len(cmds')]
               IN  d.cmd = "destroy" /\ d.exit # 0)
        => /\ stages' = stages
           /\ compute_total_score(stages') = compute_total_score(stages)
           /\ pc' = "cleanup"]_vars

C7_Witness ==
    /\ pc = "scored"
    /\ CmdFailed("destroy")
    /\ RecordedAs("apply", PASSED)
    /\ total_score = One

\* C8: every stage method that was called and returned has a StageResult of
\* its own in stages.
C8_CompleteTrace ==
    pc # "raised" =>
        \A c \in DOMAIN calls :
            calls[c] \in StageVocabulary =>
                \E i \in DOMAIN stages :
                    stages[i].stage = calls[c] /\ stages[i].status # SKIPPED

\* C9: the recorded stage names follow the stage order, each at most once,
\* and the commands were run one after the other in the order of their
\* stages.
C9_Sequential ==
    /\ Returned =>
         /\ \A i \in DOMAIN stages : stages[i].stage \in Range(StageOrder)
         /\ \A i, j \in DOMAIN stages :
                i < j => IndexIn(StageOrder, stages[i].stage)
                            < IndexIn(StageOrder, stages[j].stage)
    /\ \A i, j \in DOMAIN cmds :
           i < j => IndexIn(CommandOrder, cmds[i].cmd) < IndexIn(CommandOrder, cmds[j].cmd)
    /\ \A i, j \in DOMAIN stages :
           (i < j /\ stages[i].status # SKIPPED /\ stages[j].status # SKIPPED) =>
               \E a, b \in DOMAIN calls :
                   a < b /\ calls[a] = stages[i].stage /\ calls[b] = stages[j].stage

C9_Witness ==
    /\ Returned
    /\ [i \in DOMAIN stages |-> stages[i].stage] = StageOrder
    /\ RecordedAs("validation_script", FAILED)

\* C10: in local mode no stage method raises, whatever its command does.
C10_NoStageRaises == ~config.use_docker => pc # "raised"

\* the process of the last command a stage method ran
LastProc == call.procs[Len(call.procs)]
\* the stage method has returned a StageResult
Answered == ret # <<>> /\ ret[1].exc = "none"
\* the command whose stdout the method parses as JSON
ParsesOutput ==
    \/ call.fn = "terraform_validate"
    \/ call.fn = "terraform_plan" /\ Len(call.procs) = 2

\* C11: a stage method (init, validate, plan, apply, destroy) whose
\* executable is not found or whose JSON output cannot be parsed returns
\* status Error, and one whose command ran and exited nonzero returns
\* status Failed.
C11_ToolingErrorIsError ==
    Answered =>
        /\ LastProc.how = "notfound" => ret[1].result.status = ERROR
        /\ (ParsesOutput /\ LastProc.how = "exited" /\ LastProc.stdout.kind = "notjson")
              => ret[1].result.status = ERROR
        /\ (LastProc.how = "exited" /\ LastProc.returncode # 0
                /\ ~(ParsesOutput /\ LastProc.stdout.kind = "notjson"))
              => ret[1].result.status = FAILED

\* the stage a command belongs to
StageOf(cmd) == IF cmd = "show" THEN "plan" ELSE cmd

UnexpectedTypes == DictKeys(call.planned_resources) \ DictKeys(call.expected_resources)

\* C13: whatever the planned and expected maps (empty maps, zero counts and
\* any number of unexpected types included), the score score_plan returns
\* lies between 0.0 and 1.0.
C13_ScoreInUnitInterval ==
    ret # <<>> => RLeq(Zero, ret[1].score) /\ RLeq(ret[1].score, One)

C13_Witness ==
    /\ ret # <<>>
    /\ call.expected_resources # <<>>
    /\ Cardinality(UnexpectedTypes) >= 4
    /\ DictGet(call.planned_resources, "aws_s3_bucket", 0) = 0
    /\ DictGet(call.expected_resources, "aws_s3_bucket", 0) = 1
    /\ ret[1].score = Zero

\* C15: when the planned map equals the expected map, score_plan returns
\* exactly 1.0 and its message reports no mismatch.
C15_IdenticalMapsScoreOne ==
    (ret # <<>> /\ DictEq(call.planned_resources, call.expected_resources))
        => /\ ret[1].score = One
           /\ ret[1].message \in {"All resources match expected counts",
                                  "No expected resources to check"}

\* the types the expectation names with count 0, when it names others too
ZeroExpected ==
    {t \in DictKeys(call.expected_resources) :
        /\ DictGet(call.expected_resources, t, 0) = 0
        /\ DictRemove(call.expected_resources, t) # <<>>}

ExpectedPart ==
    SelectSeq(call.planned_resources,
              LAMBDA kv : kv[1] \in DictKeys(call.expected_resources))
\* the averaged per-type score: the score of the plan without unexpected types
AveragedScore == score_plan(ExpectedPart, call.expected_resources).score

\* C17: for a non-empty expectation, unexpected types in the plan lower the
\* averaged per-type score by min(0.1 * their number, 0.3), clamped at 0.0,
\* so the score is never below max(0.0, averaged score - 0.3).
C17_PenaltyCapped ==
    (ret # <<>> /\ call.expected_resources # <<>>) =>
        /\ ret[1].score =
              RMax(Zero, RSub(AveragedScore,
                              RMin(Rat(Cardinality(UnexpectedTypes), 10), <<3, 10>>)))
        /\ RLeq(RMax(Zero, RSub(AveragedScore, <<3, 10>>)), ret[1].score)

C17_Witness ==
    /\ ret # <<>>
    /\ call.expected_resources # <<>>
    /\ Cardinality(UnexpectedTypes) = 4
    /\ AveragedScore = One
    /\ ret[1].score = <<7, 10>>

\* C18: with an empty expectation, score_plan returns
\* (1.0, "No expected resources to check") for an empty plan and
\* (0.5, "No expectations defined") for every non-empty plan.
C18_EmptyExpectation ==
    (ret # <<>> /\ call.expected_resources = <<>>) =>
        IF call.planned_resources = <<>>
        THEN ret[1] = [score |-> One, message |-> "No expected resources to check"]
        ELSE ret[1] = [score |-> Half, message |-> "No expectations defined"]

C18_Witness ==
    /\ ret # <<>>
    /\ call.expected_resources = <<>>
    /\ call.planned_resources = << <<"aws_s3_bucket", 2>>, <<"aws_dynamodb_table", 1>> >>
    /\ ret[1].score = Half

\* C14: for every sequence of stage results with scores between 0.0 and 1.0
\* (any names, any statuses, the empty sequence and sequences of only
\* skipped or unscored stages included), compute_total_score returns a value
\* between 0.0 and 1.0 and stores it as total_score.
C14_TotalInUnitInterval ==
    ret # <<>> =>
        /\ RLeq(Zero, ret[1]) /\ RLeq(ret[1], One)
        /\ total_score = ret[1]

C14_Witness ==
    /\ ret # <<>>
    /\ Len(call.stages) = 2
    /\ call.stages[1].stage = "plan" /\ call.stages[1].score = One
    /\ call.stages[2].stage = "smoke_test" /\ call.stages[2].score = Half
    /\ ret[1] = <<9, 10>>

\* C19: a result whose stages are all unscored (setup_script,
\* cleanup_script, destroy) or Skipped gets total score 0.0, whatever scores
\* those stages carry.
C19_NothingScored ==
    (/\ ret # <<>>
     /\ \A i \in DOMAIN call.stages :
            \/ call.stages[i].stage \in UNSCORED_STAGES
            \/ call.stages[i].status = SKIPPED)
        => ret[1] = Zero

C19_Witness ==
    /\ ret # <<>>
    /\ Len(call.stages) = 2
    /\ call.stages[1] = StageResult("destroy", PASSED, One, "", <<>>)
    /\ call.stages[2] = StageResult("plan", SKIPPED, One, "", <<>>)
    /\ ret[1] = Zero

\* C20: two calls of run_cleanup_script in a row raise no exception, and
\* each returns a StageResult of stage "cleanup_script" that is the outcome
\* of its own run.
C20_CleanupTwice ==
    (call.fn = "run_cleanup_script" /\ ~call.use_docker) =>
        \A i \in DOMAIN ret :
            /\ ret[i].exc = "none"
            /\ ret[i].result.stage = "cleanup_script"
            /\ ret[i] = run_cleanup_script(call.use_docker, call.runs[i])

\* the collaborator op was called for instance number inst
Did(op, inst) == \E k \in DOMAIN log : log[k] = [op |-> op, inst |-> inst]

\* C21: when generation raises for an instance, run_instance returns a
\* result with error set, no stages and total score 0.0, and
\* evaluate_instance is not called for that instance.
C21_GenerationFailure ==
    \A n \in DOMAIN call.instances :
        (call.instances[n].gen = "raises" /\ Did("generate", n)) =>
            /\ ~Did("evaluate_instance", n)
            /\ \E k \in DOMAIN shared.results :
                  /\ shared.results[k].instance_id = n
                  /\ shared.results[k].error # ""
                  /\ shared.results[k].stages = <<>>
                  /\ shared.results[k].total_score = Zero

C21_Witness ==
    /\ Len(call.instances) = 2
    /\ call.instances[2].gen = "raises"
    /\ call.instances[2].eval.stages # <<>>
    /\ workers[1].pc = "returned"
    /\ Len(shared.results) = 2
    /\ shared.results[2].error = "Generation failed"

\* C23: run_benchmark never lets an exception out: whatever generation and
\* evaluation do for each instance, the loop goes on and a report is returned.
C23_RunBenchmarkNeverRaises == workers[1].pc # "raised"

\* what process_instance returns for an instance: a result, or None
ReturnsResult(i) ==
    LET o == call.instances[i] IN
    /\ o.mkdir = "ok"
    /\ o.trace = "saved"
    /\ o.code = "raises" \/ (o.code = "files" /\ o.eval = "result")
InReport(i) == \E k \in DOMAIN shared.results : shared.results[k].instance_id = i
OnlyInstanceExceptions == \A i \in DOMAIN call.instances : call.instances[i].mkdir = "ok"
ReportWritten ==
    /\ workers.main = "done"
    /\ shared.written
    /\ \A i \in DOMAIN call.instances :
          /\ workers.futures[i].state = "collected"
          /\ ReturnsResult(i) => InReport(i)

\* some thread of benchmark_command has a next step
SomeThreadCanStep ==
    \/ workers.main = "start"
    \/ \E i \in DOMAIN workers.futures :
          \/ MayStart(i)
          \/ workers.futures[i].state \in {"evaluating", "evaluated"}
          \/ MayCollect(i)
    \/ MayFinalize
    \/ MayUnwind

\* C22: in sequential and in parallel mode, when generation or evaluation
\* raises for some instances (and nothing else raises), the exception never
\* leaves the loop, the runner always has a next step until the report is
\* written, and the written report follows the processing of every instance
\* and holds the results of the instances that returned one.
C22_BatchSurvives ==
    OnlyInstanceExceptions =>
        /\ workers.main \notin {"unwinding", "raised"}
        /\ workers.main # "done" => SomeThreadCanStep
        /\ workers.main = "done" => ReportWritten

C22_Witness ==
    /\ ReportWritten
    /\ Len(call.instances) = 2
    /\ call.instances[1].code = "files" /\ call.instances[1].eval = "raises"
    /\ ReturnsResult(2)
    /\ ~InReport(1)
    /\ InReport(2)

\* C28: in parallel mode, in whatever order the tasks complete, the report
\* holds at most one result per instance, only results of collected tasks,
\* and exactly one for every collected task that returned a result.
C28_NoResultLostOrDuplicated ==
    call.parallel =>
        /\ \A k1, k2 \in DOMAIN shared.results :
              k1 # k2 => shared.results[k1].instance_id # shared.results[k2].instance_id
        /\ \A k \in DOMAIN shared.results :
              LET i == shared.results[k].instance_id IN
              /\ i \in DOMAIN call.instances
              /\ workers.futures[i].state = "collected"
              /\ ReturnsResult(i)
        /\ \A i \in DOMAIN call.instances :
              (workers.futures[i].state = "collected" /\ ReturnsResult(i)) => InReport(i)

C28_Witness ==
    /\ call.parallel
    /\ workers.main = "done"
    /\ Len(shared.results) = 2
    /\ shared.results[1].instance_id = 2
    /\ shared.results[2].instance_id = 1

\* the events of the log with operation op on container c
EventsOn(op, c) == {k \in DOMAIN log : log[k].op = op /\ log[k].container = c}

StartedBy(inst, c, k) ==
    \E j \in DOMAIN log :
        j < k /\ log[j].op = "start" /\ log[j].inst = inst /\ log[j].container = c

\* the environments that hold container c: the runner's shared environment
\* until its cleanup, and the environment of every evaluation in progress
UsersOf(c) ==
    (IF SharedBackend /\ c = RunnerContainer /\ workers.main \in {"collect", "unwinding"}
     THEN {0} ELSE {})
    \cup {i \in DOMAIN workers.futures :
             workers.futures[i].state \in {"evaluating", "evaluated"}
             /\ workers.futures[i].container = c}

Polls == {k \in DOMAIN log : log[k].op = "poll"}

\* C27: _wait_for_localstack makes at most max_retries health checks; it
\* returns only on a check that answered ready, and that check is its last;
\* after max_retries checks that did not it raises RuntimeError; while it
\* waits fewer than max_retries checks were made, so the constructor ends;
\* and a stage runs only after a check answered ready.
C27_StageOnlyAfterReady ==
    call.fn = "LocalstackDockerEnvironment" =>
        /\ Cardinality(Polls) <= max_retries
        /\ workers.pc = "waiting" => Cardinality(Polls) < max_retries
        /\ workers.pc \in {"ready", "stage"} =>
              /\ workers.last.returncode = 0
              /\ workers.last.stdout \in {"running", "available"}
              /\ \E k \in Polls : log[k].ready /\ \A j \in Polls : j <= k
        /\ (workers.pc = "raised" /\ Polls # {}) =>
              /\ workers.exc = "RuntimeError"
              /\ Cardinality(Polls) = max_retries
              /\ \A k \in Polls : ~log[k].ready
        /\ \A k \in DOMAIN log :
              log[k].op = "stage" => \E j \in Polls : j < k /\ log[j].ready

C27_Witness ==
    /\ call.fn = "LocalstackDockerEnvironment"
    /\ workers.pc = "stage"
    /\ Cardinality(Polls) = 3
    /\ ~log[1].ready /\ ~log[2].ready /\ log[3].ready

\* the latest assistant message submits a non-empty file map
SubmitsFiles ==
    /\ log # <<>>
    /\ \E j \in DOMAIN log[1].tool_calls :
          log[1].tool_calls[j] = [name |-> "submit_terraform", args |-> "files"]

\* C29: generate_hcl_with_tools makes at most max_iterations completion
\* calls; it ends by returning files or by raising RuntimeError and nothing
\* else; it returns only files extracted from the content or submitted
\* non-empty; and a message that submits non-empty files ends the loop in its turn.
C29_ToolLoopEnds ==
    call.fn = "generate_hcl_with_tools" =>
        /\ shared.completions <= call.max_iterations
        /\ workers.pc = "loop" => workers.iteration <= call.max_iterations
        /\ workers.pc = "raised" => workers.exc = "RuntimeError"
        /\ workers.pc = "returned" =>
              \/ ret = <<"extracted">> /\ log[1].content = "hcl"
              \/ ret = <<"submitted">> /\ SubmitsFiles
        /\ SubmitsFiles => workers.pc = "returned"

====
